---------------------------- MODULE Spec2Model ----------------------------
(***************************************************************************)
(* Model of the slot-search engine of ai-scheduler (src/scheduler.py).     *)
(*                                                                         *)
(* Time.  A datetime is a record [day, min, us]: day is the number of      *)
(* days since 2027-01-01, min the minute of the day (seconds are 0 in the  *)
(* modelled inputs) and us tells whether the microsecond part is non-zero  *)
(* (only datetime.now() produces one; dateutil's rrule drops it).  Slots   *)
(* and busy events are pairs of absolute minutes, day * 1440 + min, in the *)
(* reference timezone.  The reference timezone is modelled at the fixed    *)
(* offset UTC-5: daylight-saving transitions are outside the model.        *)
(*                                                                         *)
(* Specifications.  SpecDates, SpecDay and SpecNearby apply                *)
(* generate_candidate_dates, find_available_slot_on_day and                *)
(* find_slot_on_nearby_dates to inputs drawn from bounded sets.  Spec is   *)
(* one call of find_optimal_slots.  SpecRuns runs find_optimal_slots       *)
(* repeatedly, one loop iteration per step, while the clock moves on.      *)
(***************************************************************************)
EXTENDS Integers, Sequences, FiniteSets

VARIABLES
    clock,            \* the wall clock datetime.now(EST) reads
    existing_events,  \* the busy events handed to the call
    preferred_time,   \* preferred start, minute of the day
    duration,         \* meeting length in minutes
    recurrence,       \* recurrence pattern (a string)
    months_ahead,     \* horizon in calendar months
    now,              \* find_optimal_slots: now / generate_candidate_dates: start_date
    end_date,         \* end of the scheduling window
    candidate_dates,  \* sequence of candidate datetimes
    base_date,        \* the date a day search or fallback search is called on
    idx,              \* find_optimal_slots: position of the for loop
    optimal_slots,    \* find_optimal_slots: slots accepted so far
    ret,              \* value returned by a day search or fallback search
    prev,             \* the completed earlier runs of find_optimal_slots
    pc                \* "ready" before the call, "running", "returned" after

vars == <<clock, existing_events, preferred_time, duration, recurrence,
          months_ahead, now, end_date, candidate_dates, base_date, idx,
          optimal_slots, ret, prev, pc>>

None == [none |-> TRUE]

-----------------------------------------------------------------------------
(* Model bounds *)

\* reference instants range over days 0 .. MaxNowDay (2027-01-01 up to
\* 2028-03-06, the leap day 2028-02-29 included)
MaxNowDay == 430
\* horizons range over 1 .. MaxMonths calendar months
MaxMonths == 3

-----------------------------------------------------------------------------
(* Calendar arithmetic: datetime, timedelta, relativedelta *)

\* day 0 is 2027-01-01, a Friday: date(2027, 1, 1).weekday() = 4 (Monday is 0)
Epoch == [year |-> 2027, weekday |-> 4]
MinutesPerDay == 24 * 60
Years == Epoch.year .. (Epoch.year + 2)

TH == 3
FR == 4

IsLeap(y) == (y % 4 = 0 /\ y % 100 # 0) \/ y % 400 = 0

DaysInMonth(y, m) ==
    IF m = 2 THEN (IF IsLeap(y) THEN 29 ELSE 28)
    ELSE IF m \in {4, 6, 9, 11} THEN 30 ELSE 31

RECURSIVE DaysBeforeMonth(_, _)
DaysBeforeMonth(y, m) ==
    IF m = 1 THEN 0 ELSE DaysBeforeMonth(y, m - 1) + DaysInMonth(y, m - 1)

RECURSIVE DaysBeforeYear(_)
DaysBeforeYear(y) ==
    IF y = Epoch.year THEN 0
    ELSE DaysBeforeYear(y - 1) + (IF IsLeap(y - 1) THEN 366 ELSE 365)

\* day number of the calendar date y-m-d
Ord(y, m, d) == DaysBeforeYear(y) + DaysBeforeMonth(y, m) + (d - 1)

YearOf(o) == CHOOSE y \in Years : Ord(y, 1, 1) <= o /\ o < Ord(y + 1, 1, 1)
MonthOf(o) ==
    LET y == YearOf(o)
    IN  CHOOSE m \in 1..12 : Ord(y, m, 1) <= o /\ o < Ord(y, m, 1) + DaysInMonth(y, m)
DayOf(o) == o - Ord(YearOf(o), MonthOf(o), 1) + 1

\* datetime.weekday()
Weekday(o) == (o + Epoch.weekday) % 7

Dt(d, m, u) == [day |-> d, min |-> m, us |-> u]

\* comparison of two datetimes of the same tzinfo
DtLt(a, b) ==
    \/ a.day < b.day
    \/ a.day = b.day /\ a.min < b.min
    \/ a.day = b.day /\ a.min = b.min /\ a.us < b.us
DtLe(a, b) == a = b \/ DtLt(a, b)

\* dt + timedelta(days=n)
AddDays(dt, n) == [dt EXCEPT !.day = dt.day + n]

\* dt + relativedelta(months=n): the day is clamped to the target month's end
AddMonths(dt, n) ==
    LET y  == YearOf(dt.day)
        m0 == (MonthOf(dt.day) - 1) + n
        ty == y + (m0 \div 12)
        tm == (m0 % 12) + 1
        d  == DayOf(dt.day)
        td == IF d > DaysInMonth(ty, tm) THEN DaysInMonth(ty, tm) ELSE d
    IN  [dt EXCEPT !.day = Ord(ty, tm, td)]

\* absolute minute of a day and a minute of the day
Minutes(day, tod) == day * MinutesPerDay + tod

-----------------------------------------------------------------------------
(* dateutil.rrule, as generate_candidate_dates uses it *)

\* rrule keeps dtstart.replace(microsecond=0)
Truncate(dt) == [dt EXCEPT !.us = 0]

\* rrule(WEEKLY, interval=n, dtstart=.., until=..): dtstart, dtstart + 7n days,
\* ... as long as the occurrence is not after until
RECURSIVE WeeklyFrom(_, _, _)
WeeklyFrom(res, until, interval) ==
    IF DtLt(until, res) THEN <<>>
    ELSE <<res>> \o WeeklyFrom(AddDays(res, 7 * interval), until, interval)

rrule_weekly(dtstart, until, interval) ==
    WeeklyFrom(Truncate(dtstart), until, interval)

\* day of the month of the n-th (n = 1: first, n = -1: last) weekday wd
NthWeekday(y, m, wd, n) ==
    IF n = 1
    THEN CHOOSE d \in 1..7 : Weekday(Ord(y, m, d)) = wd
    ELSE CHOOSE d \in (DaysInMonth(y, m) - 6)..DaysInMonth(y, m) :
             Weekday(Ord(y, m, d)) = wd

\* rrule(MONTHLY, byweekday=[wd(n)]): month by month from dtstart's month,
\* the n-th weekday at dtstart's time of day; an occurrence after until ends
\* the iteration, one before dtstart is not yielded
RECURSIVE MonthlyFrom(_, _, _, _, _, _)
MonthlyFrom(y, m, dtstart, until, wd, n) ==
    LET res == Dt(Ord(y, m, NthWeekday(y, m, wd, n)), dtstart.min, 0)
        ny  == IF m = 12 THEN y + 1 ELSE y
        nm  == IF m = 12 THEN 1 ELSE m + 1
    IN  IF DtLt(until, res) THEN <<>>
        ELSE (IF DtLe(dtstart, res) THEN <<res>> ELSE <<>>)
             \o MonthlyFrom(ny, nm, dtstart, until, wd, n)

rrule_monthly(dtstart, until, wd, n) ==
    MonthlyFrom(YearOf(dtstart.day), MonthOf(dtstart.day),
                Truncate(dtstart), until, wd, n)

SupportedPatterns ==
    {"First Thursday of each month", "Last Friday of each month",
     "Every two weeks", "Weekly"}

\* a pattern string outside the four the UI offers
Patterns == SupportedPatterns \cup {"Daily"}

\* slip: the first-Thursday branch built with the last-occurrence rule
generate_candidate_dates_last(start_date, until, pattern) ==
    IF pattern = "First Thursday of each month"
    THEN rrule_monthly(start_date, until, TH, -1)
    ELSE IF pattern = "Last Friday of each month"
    THEN rrule_monthly(start_date, until, FR, -1)
    ELSE IF pattern = "Every two weeks"
    THEN rrule_weekly(start_date, until, 2)
    ELSE rrule_weekly(start_date, until, 1)

generate_candidate_dates(start_date, until, pattern) ==
    IF pattern = "First Thursday of each month"
    THEN rrule_monthly(start_date, until, TH, 1)
    ELSE IF pattern = "Last Friday of each month"
    THEN rrule_monthly(start_date, until, FR, -1)
    ELSE IF pattern = "Every two weeks"
    THEN rrule_weekly(start_date, until, 2)
    ELSE rrule_weekly(start_date, until, 1)

-----------------------------------------------------------------------------
(* Conflict detection and the day search *)

BUFFER_MINUTES == 15
STEP_MINUTES == 30
DAY_START_HOUR == 9
DAY_END_HOUR == 17

Slot(s, e) == [start |-> s, end |-> e]

\* the comparison without the buffer
has_conflict_nobuffer(slot, events) ==
    \E event \in events :
        /\ ~(event.end < slot.start \/ event.start > slot.end)
        /\ slot.start < event.end /\ slot.end > event.start

\* the comparison with the boundary included
has_conflict_closed(slot, events) ==
    LET slot_start == slot.start - BUFFER_MINUTES
        slot_end   == slot.end + BUFFER_MINUTES
    IN  \E event \in events :
            /\ ~(event.end < slot_start \/ event.start > slot_end)
            /\ slot_start <= event.end /\ slot_end >= event.start

\* has_conflict: some event passes the coarse range check and overlaps the
\* slot widened by the buffer on both sides
has_conflict(slot, events) ==
    LET slot_start == slot.start - BUFFER_MINUTES
        slot_end   == slot.end + BUFFER_MINUTES
    IN  \E event \in events :
            /\ ~(event.end < slot_start \/ event.start > slot_end)
            /\ slot_start < event.end /\ slot_end > event.start

\* where the scan of a day starts: the preferred time when its hour lies in
\* business hours, else 09:00
SearchStart(date, pref) ==
    IF DAY_START_HOUR <= pref \div 60 /\ pref \div 60 < DAY_END_HOUR
    THEN Minutes(date.day, pref)
    ELSE Minutes(date.day, DAY_START_HOUR * 60)

\* the while loop of find_available_slot_on_day from current_time on
RECURSIVE ScanDay(_, _, _, _)
ScanDay(current_time, day_end, dur, events) ==
    IF ~(current_time < day_end) THEN None
    ELSE LET slot == Slot(current_time, current_time + dur)
         IN  IF slot.end > day_end THEN None
             ELSE IF ~has_conflict(slot, events) THEN slot
             ELSE ScanDay(current_time + STEP_MINUTES, day_end, dur, events)

\* the scan without the test against the end of business hours
RECURSIVE ScanDayNoEnd(_, _, _, _)
ScanDayNoEnd(current_time, day_end, dur, events) ==
    IF ~(current_time < day_end) THEN None
    ELSE LET slot == Slot(current_time, current_time + dur)
         IN  IF ~has_conflict(slot, events) THEN slot
             ELSE ScanDayNoEnd(current_time + STEP_MINUTES, day_end, dur, events)

find_available_slot_on_day_noend(date, pref, dur, events) ==
    ScanDayNoEnd(SearchStart(date, pref), Minutes(date.day, DAY_END_HOUR * 60),
                 dur, events)

find_available_slot_on_day(date, pref, dur, events) ==
    ScanDay(SearchStart(date, pref), Minutes(date.day, DAY_END_HOUR * 60),
            dur, events)

-----------------------------------------------------------------------------
(* The fallback search and the orchestrator *)

WEEK_OFFSETS == <<1, -1, 2, -2, 3, -3, 4, -4>>

\* the offsets with the backward week tried first
WEEK_OFFSETS_BACK_FIRST == <<-1, 1, -2, 2, -3, 3, -4, 4>>

\* the test "Don't go beyond the scheduling window" negated
InWindow(test_date, start_date, until) ==
    ~(DtLt(until, test_date) \/ DtLt(test_date, start_date))

\* the for loop of find_slot_on_nearby_dates from position n of offsets on
RECURSIVE TryOffsets(_, _, _, _, _, _, _, _)
TryOffsets(offsets, n, base, pref, dur, events, until, start_date) ==
    IF n > Len(offsets) THEN None
    ELSE LET test_date == AddDays(base, 7 * offsets[n])
             rest == TryOffsets(offsets, n + 1, base, pref, dur, events, until,
                                start_date)
         IN  IF ~InWindow(test_date, start_date, until) THEN rest
             ELSE LET slot == find_available_slot_on_day(test_date, pref, dur,
                                                         events)
                  IN  IF slot # None THEN slot ELSE rest

find_slot_on_nearby_dates_back_first(base, pref, dur, events, until, start_date) ==
    TryOffsets(WEEK_OFFSETS_BACK_FIRST, 1, base, pref, dur, events, until,
               start_date)

find_slot_on_nearby_dates(base, pref, dur, events, until, start_date) ==
    TryOffsets(WEEK_OFFSETS, 1, base, pref, dur, events, until, start_date)

\* utcoffset of the reference timezone (US Eastern, standard time), minutes
EST_OFFSET == -300

\* datetime.astimezone(EST) on a wall time carried with its utcoffset
astimezone(wall, utcoffset) == wall - utcoffset + EST_OFFSET

normalize_events_timezone(events) ==
    {[start |-> astimezone(e.start, e.utcoffset),
      end   |-> astimezone(e.end, e.utcoffset)] : e \in events}

\* body of the for loop of find_optimal_slots: the slot appended for one
\* candidate date, or None when the candidate is dropped
SlotForCandidate(base, pref, dur, events, until, start_date) ==
    LET slot == find_available_slot_on_day(base, pref, dur, events)
    IN  IF slot # None THEN slot
        ELSE find_slot_on_nearby_dates(base, pref, dur, events, until, start_date)

RECURSIVE CollectSlots(_, _, _, _, _, _, _)
CollectSlots(dates, n, pref, dur, events, until, start_date) ==
    IF n > Len(dates) THEN <<>>
    ELSE LET slot == SlotForCandidate(dates[n], pref, dur, events, until, start_date)
         IN  (IF slot # None THEN <<slot>> ELSE <<>>)
             \o CollectSlots(dates, n + 1, pref, dur, events, until, start_date)

\* find_optimal_slots with the clock reading t
find_optimal_slots(events, pref, dur, pattern, months, t) ==
    LET normalized == normalize_events_timezone(events)
        until == AddMonths(t, months)
        dates == generate_candidate_dates(t, until, pattern)
    IN  CollectSlots(dates, 1, pref, dur, normalized, until, t)

-----------------------------------------------------------------------------
(* Inputs *)

\* times of day the clock is read at: 08:00 and 15:00
NowMinutes == {480, 900}

NowValues == {Dt(d, m, u) : d \in 0..MaxNowDay, m \in NowMinutes, u \in {0, 1}}

\* the subsets of S with at most k elements
KSubsets(S, k) ==
    {{f[i] : i \in 1..k} \ {None} : f \in [1..k -> S \cup {None}]}

\* preferred start times: 08:00, 09:00, 09:30, 16:45, 17:00
PreferredTimes == {480, 540, 570, 1005, 1020}

\* end points of the busy events of the day-search inputs: 08:30, 09:15,
\* 09:16, 10:00, 12:00, 17:00, 17:15
DayEventTimes == {510, 555, 556, 600, 720, 1020, 1035}

DayEventMenu(d) ==
    {Slot(Minutes(d, p[1]), Minutes(d, p[2])) :
        p \in {q \in DayEventTimes \X DayEventTimes : q[1] < q[2]}}

\* a day busy from 09:00 to 17:00, and a morning meeting 08:30 - 09:15
FullDay(d) == Slot(Minutes(d, 540), Minutes(d, 1020))
Morning(d) == Slot(Minutes(d, 510), Minutes(d, 555))

\* an event of the reference timezone, and the same instants written in UTC
InEST(e) == [start |-> e.start, end |-> e.end, utcoffset |-> EST_OFFSET]
InUTC(e) == [start |-> e.start - EST_OFFSET, end |-> e.end - EST_OFFSET,
             utcoffset |-> 0]

-----------------------------------------------------------------------------
(* Specification of generate_candidate_dates *)

InitDates ==
    /\ now \in NowValues
    /\ months_ahead \in 1..MaxMonths
    /\ end_date = AddMonths(now, months_ahead)
    /\ recurrence \in Patterns
    /\ clock = now
    /\ existing_events = {}
    /\ preferred_time = 540
    /\ duration = 60
    /\ candidate_dates = <<>>
    /\ base_date = None
    /\ idx = 0
    /\ optimal_slots = <<>>
    /\ ret = None
    /\ prev = <<>>
    /\ pc = "ready"

GenerateCandidateDates ==
    /\ pc = "ready"
    /\ candidate_dates' = generate_candidate_dates(now, end_date, recurrence)
    /\ pc' = "returned"
    /\ UNCHANGED <<clock, existing_events, preferred_time, duration, recurrence,
                   months_ahead, now, end_date, base_date, idx, optimal_slots,
                   ret, prev>>

NextDates == GenerateCandidateDates

SpecDates == InitDates /\ [][NextDates]_vars

\* C6 as stated: FirstWeekdayOfMonth(Thursday) over a 3-month horizon yields
\* exactly 3 candidate dates, one per calendar month, each the first Thursday
\* of its month.
IsFirstThursday(o) == Weekday(o) = TH /\ DayOf(o) <= 7

C6_ExactlyThree ==
    (pc = "returned" /\ recurrence = "First Thursday of each month"
        /\ months_ahead = 3)
    => /\ Len(candidate_dates) = 3
       /\ \A i \in 1..Len(candidate_dates) : IsFirstThursday(candidate_dates[i].day)

\* C6 amended: for the first-Thursday pattern over a horizon of h months the
\* candidates are, in ascending order, exactly the first Thursdays whose
\* calendar date lies between now's date and end's date (both included), at
\* most one per month; there are between h - 1 and h + 1 of them (2 to 4 for
\* the 3-month horizon).
C6_FirstThursdaysInWindow ==
    (pc = "returned" /\ recurrence = "First Thursday of each month")
    => /\ Len(candidate_dates) \in (months_ahead - 1)..(months_ahead + 1)
       /\ \A i \in 1..Len(candidate_dates) : IsFirstThursday(candidate_dates[i].day)
       /\ \A i \in 1..(Len(candidate_dates) - 1) :
              candidate_dates[i].day < candidate_dates[i + 1].day
       /\ {candidate_dates[i].day : i \in 1..Len(candidate_dates)}
              = {o \in now.day..end_date.day : IsFirstThursday(o)}

C6_Witness ==
    /\ pc = "returned" /\ recurrence = "First Thursday of each month"
    /\ months_ahead = 3 /\ Len(candidate_dates) = 4

\* C3 as stated: a pattern outside the four supported values makes the call
\* fail with InvalidPattern and yields no candidate dates.
C3_InvalidPatternRejected ==
    recurrence \notin SupportedPatterns
    => (pc \in {"ready", "InvalidPattern"} /\ candidate_dates = <<>>)

-----------------------------------------------------------------------------
(* Specification of find_available_slot_on_day *)

\* at most MaxEvents busy events per call
MaxEvents == 2

\* durations of the day search: 15, 60, 240 and 480 minutes
DayDurations == {15, 60, 240, 480}

InitDay ==
    /\ base_date = Dt(7, 480, 0)
    /\ preferred_time \in PreferredTimes
    /\ duration \in DayDurations
    /\ existing_events \in KSubsets(DayEventMenu(7), MaxEvents)
    /\ clock = Dt(0, 480, 0)
    /\ now = clock
    /\ months_ahead = 1
    /\ end_date = AddMonths(now, months_ahead)
    /\ recurrence = "Weekly"
    /\ candidate_dates = <<>>
    /\ idx = 0
    /\ optimal_slots = <<>>
    /\ ret = None
    /\ prev = <<>>
    /\ pc = "ready"

FindAvailableSlotOnDay ==
    /\ pc = "ready"
    /\ ret' = find_available_slot_on_day(base_date, preferred_time, duration,
                                         existing_events)
    /\ pc' = "returned"
    /\ UNCHANGED <<clock, existing_events, preferred_time, duration, recurrence,
                   months_ahead, now, end_date, candidate_dates, base_date, idx,
                   optimal_slots, prev>>

NextDay == FindAvailableSlotOnDay

SpecDay == InitDay /\ [][NextDay]_vars

\* the claim's own reading of the search: positions s0 + 30k, s0 the preferred
\* time when it lies in [09:00, 17:00) and 09:00 otherwise
ClaimStart == IF 540 <= preferred_time /\ preferred_time < 1020
              THEN base_date.day * 1440 + preferred_time
              ELSE base_date.day * 1440 + 540
ClaimPos(k) == ClaimStart + 30 * k
ClaimBlocked(s, e) ==
    \E ev \in existing_events : s - 15 < ev.end /\ e + 15 > ev.start
ClaimFits(k) ==
    /\ ClaimPos(k) + duration <= base_date.day * 1440 + 1020
    /\ ~ClaimBlocked(ClaimPos(k), ClaimPos(k) + duration)
\* no position beyond 09:00 + 16 * 30 min can end by 17:00
ClaimProbes == 0..16

\* C7: for duration > 0 the day search returns the slot at the smallest k >= 0
\* whose slot ends by 17:00 and has no busy event within 15 minutes, and none
\* iff there is no such k; an event ending exactly 15 minutes before a
\* position does not block it, one ending 14 minutes before does.
C7_FirstFreePosition ==
    (pc = "returned" /\ duration > 0)
    => /\ (ret = None) <=> (\A k \in ClaimProbes : ~ClaimFits(k))
       /\ ret # None =>
            \E k \in ClaimProbes :
                /\ ClaimFits(k)
                /\ \A j \in 0..(k - 1) : ~ClaimFits(j)
                /\ ret = Slot(ClaimPos(k), ClaimPos(k) + duration)
       /\ \A ev \in existing_events : \A k \in ClaimProbes :
            LET slot == Slot(ClaimPos(k), ClaimPos(k) + duration)
            IN  /\ ev.end = ClaimPos(k) - 15 => ~has_conflict(slot, {ev})
                /\ ev.end = ClaimPos(k) - 14 => has_conflict(slot, {ev})

\* the search moved past a blocked position and accepted one whose start is
\* exactly 15 minutes after the end of a busy event
C7_Witness ==
    /\ pc = "returned" /\ duration > 0 /\ ret # None
    /\ ret.start > ClaimStart
    /\ \E ev \in existing_events : ev.end = ret.start - 15

-----------------------------------------------------------------------------
(* Specification of find_slot_on_nearby_dates *)

\* the canonical date lies 0 .. MaxWeeks weeks after the window's start
MaxWeeks == 4

\* busy events of the fallback inputs: on the weekday of the window's start,
\* a fully busy day or a morning meeting, in the weeks around the window
NearbyEventMenu(d) ==
    {FullDay(d + 7 * w) : w \in 0..(MaxWeeks + 2)}
        \cup {Morning(d + 7 * w) : w \in 0..(MaxWeeks + 2)}

InitNearby ==
    /\ now \in {Dt(d, m, u) : d \in {0, 3}, m \in NowMinutes, u \in {0, 1}}
    /\ clock = now
    /\ months_ahead = 1
    /\ end_date = AddMonths(now, months_ahead)
    /\ base_date \in {AddDays(Truncate(now), 7 * w) : w \in 0..MaxWeeks}
    /\ preferred_time \in {540, 1005}
    /\ duration \in {60, 480}
    /\ existing_events \in KSubsets(NearbyEventMenu(now.day), MaxEvents)
    /\ recurrence = "Weekly"
    /\ candidate_dates = <<>>
    /\ idx = 0
    /\ optimal_slots = <<>>
    /\ ret = None
    /\ prev = <<>>
    /\ pc = "ready"

FindSlotOnNearbyDates ==
    /\ pc = "ready"
    /\ ret' = find_slot_on_nearby_dates(base_date, preferred_time, duration,
                                        existing_events, end_date, now)
    /\ pc' = "returned"
    /\ UNCHANGED <<clock, existing_events, preferred_time, duration, recurrence,
                   months_ahead, now, end_date, candidate_dates, base_date, idx,
                   optimal_slots, prev>>

NextNearby == FindSlotOnNearbyDates

SpecNearby == InitNearby /\ [][NextNearby]_vars

\* the claim's order of week offsets and its test dates
ClaimOrder == <<1, -1, 2, -2, 3, -3, 4, -4>>
ClaimTestDate(n) == [base_date EXCEPT !.day = base_date.day + 7 * ClaimOrder[n]]
ClaimInside(n) == DtLe(now, ClaimTestDate(n)) /\ DtLe(ClaimTestDate(n), end_date)
ClaimDaySlot(n) ==
    find_available_slot_on_day(ClaimTestDate(n), preferred_time, duration,
                               existing_events)
ClaimYields(n) == ClaimInside(n) /\ ClaimDaySlot(n) # None

\* C8: the fallback search returns the day-search result of the first offset,
\* in the order +1, -1, +2, -2, +3, -3, +4, -4, whose test date lies inside
\* [startDate, endDate] and has a slot, and none iff no offset has one; with
\* the canonical date busy 09:00-17:00 and the +1 week date inside the window
\* and free, the slot returned is on the +1 week date.
C8_FirstOffsetInOrder ==
    pc = "returned"
    => /\ (ret = None) <=> (\A n \in 1..8 : ~ClaimYields(n))
       /\ ret # None =>
            \E n \in 1..8 :
                /\ ClaimYields(n)
                /\ \A j \in 1..(n - 1) : ~ClaimYields(j)
                /\ ret = ClaimDaySlot(n)
       /\ (FullDay(base_date.day) \in existing_events /\ ClaimYields(1))
            => (ret # None /\ ret.start \div 1440 = base_date.day + 7)

\* canonical date fully busy, the +1 week date free and inside the window:
\* the slot is on the +1 week date
C8_Witness ==
    /\ pc = "returned"
    /\ FullDay(base_date.day) \in existing_events
    /\ ClaimInside(1) /\ ClaimInside(2)
    /\ ret # None /\ ret.start \div 1440 = base_date.day + 7

\* the +1 week date is outside the window and the -1 week date busy: the
\* search went on to a later offset
C8_WitnessSkipped ==
    /\ pc = "returned"
    /\ ~ClaimInside(1) /\ ClaimInside(2) /\ ~ClaimYields(2)
    /\ ret # None

-----------------------------------------------------------------------------
(* Specification of find_optimal_slots *)

\* busy events of a scheduling request: fully busy days and morning meetings
\* on the Fridays from 2027-01-01 on, fully busy first Thursdays, and two of
\* the fully busy days given in UTC
RunEventMenu ==
    {InEST(FullDay(d)) : d \in {0, 7, 14, 21, 28, 6, 13}}
        \cup {InEST(Morning(d)) : d \in {0, 7, 14, 28}}
        \cup {InUTC(FullDay(d)) : d \in {7, 14}}

\* days a request is made on: Friday 2027-01-01 and Monday 2027-02-01 (four
\* weeks before the end of its one-month window)
RunDays == {0, 31}

\* durations of a request, the non-positive ones included
RunDurations == {-30, 0, 60, 480}

Init ==
    /\ clock \in {Dt(d, m, u) : d \in RunDays, m \in NowMinutes, u \in {0, 1}}
    /\ existing_events \in KSubsets(RunEventMenu, MaxEvents)
    /\ preferred_time \in {480, 540, 1005}
    /\ duration \in RunDurations
    /\ recurrence \in Patterns
    /\ months_ahead \in {1, 2}
    /\ now = None
    /\ end_date = None
    /\ candidate_dates = <<>>
    /\ base_date = None
    /\ idx = 0
    /\ optimal_slots = <<>>
    /\ ret = None
    /\ prev = <<>>
    /\ pc = "ready"

FindOptimalSlots ==
    /\ pc = "ready"
    /\ now' = clock
    /\ end_date' = AddMonths(clock, months_ahead)
    /\ candidate_dates' =
           generate_candidate_dates(clock, AddMonths(clock, months_ahead),
                                    recurrence)
    /\ optimal_slots' = find_optimal_slots(existing_events, preferred_time,
                                           duration, recurrence, months_ahead,
                                           clock)
    /\ pc' = "returned"
    /\ UNCHANGED <<clock, existing_events, preferred_time, duration, recurrence,
                   months_ahead, base_date, idx, ret, prev>>

Next == FindOptimalSlots

Spec == Init /\ [][Next]_vars

SlotsReturned == {optimal_slots[i] : i \in 1..Len(optimal_slots)}

\* C1: with duration > 0 every returned slot lasts exactly duration minutes,
\* starts at or after 09:00 and ends at or before 17:00 of the same day, on
\* the canonical date as well as on a fallback date.
C1_SlotsInBusinessHours ==
    (pc = "returned" /\ duration > 0)
    => \A s \in SlotsReturned :
          /\ s.end - s.start = duration
          /\ s.start % 1440 >= 540
          /\ s.end % 1440 <= 1020
          /\ s.start \div 1440 = s.end \div 1440

\* the first candidate's day is fully busy and its slot was found a week later
C1_Witness ==
    /\ pc = "returned" /\ duration > 0 /\ recurrence = "Weekly"
    /\ \E e \in existing_events :
          e.start - e.utcoffset = Minutes(candidate_dates[1].day, 540) - EST_OFFSET
          /\ e.end - e.utcoffset = Minutes(candidate_dates[1].day, 1020) - EST_OFFSET
    /\ Len(optimal_slots) = Len(candidate_dates)
    /\ optimal_slots[1].start \div 1440 = candidate_dates[1].day + 7

\* C2: no returned slot, widened by 15 minutes on each side, overlaps a busy
\* event passed to the call (compared as instants, in UTC minutes).
C2_NoConflictWithBuffer ==
    pc = "returned"
    => \A s \in SlotsReturned : \A e \in existing_events :
          ~(/\ (s.start - EST_OFFSET) - 15 < e.end - e.utcoffset
            /\ (s.end - EST_OFFSET) + 15 > e.start - e.utcoffset)

\* a returned slot starts exactly 15 minutes after a busy event ends, and one
\* of the busy events was given in UTC
C2_Witness ==
    /\ pc = "returned"
    /\ \E s \in SlotsReturned : \E e \in existing_events :
          e.end - e.utcoffset = (s.start - EST_OFFSET) - 15
    /\ \E e \in existing_events : e.utcoffset = 0

\* C4 as stated: a duration <= 0 makes the call fail with InvalidDuration and
\* return no slots, and no returned slot ends at or before its start.
C4_InvalidDurationRejected ==
    /\ duration <= 0
          => (pc \in {"ready", "InvalidDuration"} /\ optimal_slots = <<>>)
    /\ \A s \in SlotsReturned : s.end > s.start

\* C9 as stated, for positive durations and supported patterns: no two slots
\* of one result overlap or coincide.
C9_SlotsDisjoint ==
    (pc = "returned" /\ duration > 0 /\ recurrence \in SupportedPatterns)
    => \A i, j \in 1..Len(optimal_slots) :
          i # j => \/ optimal_slots[i].end <= optimal_slots[j].start
                   \/ optimal_slots[j].end <= optimal_slots[i].start

\* C10 as stated, for positive durations and supported patterns: every
\* returned slot starts at or after now and ends at or before the window's end.
C10_SlotsInsideWindow ==
    (pc = "returned" /\ duration > 0 /\ recurrence \in SupportedPatterns)
    => \A s \in SlotsReturned :
          /\ ~DtLt(Dt(s.start \div 1440, s.start % 1440, 0), now)
          /\ ~DtLt(end_date, Dt(s.end \div 1440, s.end % 1440, 0))

\* the two halves of C10, each refuted on its own
C10_StartNotBeforeNow ==
    (pc = "returned" /\ duration > 0 /\ recurrence \in SupportedPatterns)
    => \A s \in SlotsReturned :
          ~DtLt(Dt(s.start \div 1440, s.start % 1440, 0), now)

C10_EndNotAfterWindow ==
    (pc = "returned" /\ duration > 0 /\ recurrence \in SupportedPatterns)
    => \A s \in SlotsReturned :
          ~DtLt(end_date, Dt(s.end \div 1440, s.end % 1440, 0))

-----------------------------------------------------------------------------
(* Specification of repeated runs of find_optimal_slots under a running clock *)

\* the clock takes values on days 0 .. MaxClockDay
MaxClockDay == 1
\* number of runs of one request
MaxRuns == 2

ClockValues == {Dt(d, 480, u) : d \in 0..MaxClockDay, u \in {0, 1}}

RunsEventMenu == {InEST(FullDay(d)) : d \in {7, 14, 21}} \cup {InUTC(Morning(0))}

\* the window start handed to the fallback search: the now read at the start
\* of the run
WindowStartClock == clock

WindowStart == now

InitRuns ==
    /\ clock \in ClockValues
    /\ existing_events \in KSubsets(RunsEventMenu, MaxEvents)
    /\ preferred_time = 540
    /\ duration \in {60, 480}
    /\ recurrence \in Patterns
    /\ months_ahead = 1
    /\ now = None
    /\ end_date = None
    /\ candidate_dates = <<>>
    /\ base_date = None
    /\ idx = 0
    /\ optimal_slots = <<>>
    /\ ret = None
    /\ prev = <<>>
    /\ pc = "ready"

\* time passes
Tick ==
    /\ \E c \in ClockValues : DtLt(clock, c) /\ clock' = c
    /\ UNCHANGED <<existing_events, preferred_time, duration, recurrence,
                   months_ahead, now, end_date, candidate_dates, base_date, idx,
                   optimal_slots, ret, prev, pc>>

\* find_optimal_slots up to its for loop
StartRun ==
    /\ pc = "ready"
    /\ Len(prev) < MaxRuns
    /\ now' = clock
    /\ end_date' = AddMonths(clock, months_ahead)
    /\ candidate_dates' =
           generate_candidate_dates(clock, AddMonths(clock, months_ahead),
                                    recurrence)
    /\ idx' = 1
    /\ optimal_slots' = <<>>
    /\ pc' = "running"
    /\ UNCHANGED <<clock, existing_events, preferred_time, duration, recurrence,
                   months_ahead, base_date, ret, prev>>

\* one iteration of the for loop
ProcessCandidate ==
    /\ pc = "running"
    /\ idx <= Len(candidate_dates)
    /\ base_date' = candidate_dates[idx]
    /\ ret' = SlotForCandidate(candidate_dates[idx], preferred_time, duration,
                               normalize_events_timezone(existing_events),
                               end_date, WindowStart)
    /\ optimal_slots' = IF ret' # None THEN Append(optimal_slots, ret')
                        ELSE optimal_slots
    /\ idx' = idx + 1
    /\ UNCHANGED <<clock, existing_events, preferred_time, duration, recurrence,
                   months_ahead, now, end_date, candidate_dates, prev, pc>>

\* return optimal_slots
ReturnSlots ==
    /\ pc = "running"
    /\ idx > Len(candidate_dates)
    /\ prev' = Append(prev, [now |-> now, slots |-> optimal_slots])
    /\ pc' = "ready"
    /\ UNCHANGED <<clock, existing_events, preferred_time, duration, recurrence,
                   months_ahead, now, end_date, candidate_dates, base_date, idx,
                   optimal_slots, ret>>

NextRuns == Tick \/ StartRun \/ ProcessCandidate \/ ReturnSlots

SpecRuns == InitRuns /\ [][NextRuns]_vars

\* C5 as stated: two runs on the same existing_events, preferred_time,
\* duration, recurrence and months_ahead return the same slot sequence.
C5_SameInputsSameSlots ==
    \A i, j \in 1..Len(prev) : prev[i].slots = prev[j].slots

\* C5 amended: two runs on the same inputs that read the same reference
\* instant now return the same slot sequence, whatever the clock does while
\* they run.
C5_SameNowSameSlots ==
    \A i, j \in 1..Len(prev) :
        prev[i].now = prev[j].now => prev[i].slots = prev[j].slots

\* two completed runs read the same now, the clock moved on during the
\* second, and a slot of the result came from the fallback search
C5_Witness ==
    /\ Len(prev) = 2
    /\ prev[1].now = prev[2].now
    /\ DtLt(prev[2].now, clock)
    /\ recurrence = "Weekly"
    /\ \E i \in 1..Len(prev[1].slots) :
          prev[1].slots[i].start \div 1440 # candidate_dates[i].day

\* a completed run returns what find_optimal_slots computes in one piece
RunsAgreeWithFunction ==
    \A i \in 1..Len(prev) :
        prev[i].slots = find_optimal_slots(existing_events, preferred_time,
                                           duration, recurrence, months_ahead,
                                           prev[i].now)


=============================================================================
